---- MODULE Spec2Model ----
(***************************************************************************)
(* Model of the curiosity container-metrics agent.                         *)
(*                                                                         *)
(*   src/src/container.rs  get_containers_as_str, to_cosmos_container,     *)
(*                         get_cpu_percent                                 *)
(*   src/src/main.rs       main, run                                       *)
(*                                                                         *)
(* Two specifications share the variables:                                 *)
(*   SpecConvert  one call of to_cosmos_container on inputs drawn from     *)
(*                bounded sets (the pure metrics/name computation);        *)
(*   Spec         the program's two entry points, chosen by Init:          *)
(*                one call of get_containers_as_str (list, two samples     *)
(*                per container, convert, encode), or main's loop          *)
(*                (run(host), sleep 5 s, repeat), each against a runtime   *)
(*                whose live container set changes underneath it.          *)
(*                                                                         *)
(* Numbers.  u64 is modelled as an unsigned word of WordBits bits, because *)
(* TLC's integers are 32 bits wide; subtraction either wraps modulo        *)
(* 2^WordBits (build without overflow checks) or panics (build with        *)
(* overflow checks): the variable overflow_checks is the build.            *)
(* f64 is modelled as NaN, +Inf, or an exact reduced fraction num/den.     *)
(* IEEE rounding is monotone and keeps 0 and the integers used here exact, *)
(* so "is NaN", "is infinite", "= 0", "<= 0" and "<= 100 * cpus" mean the   *)
(* same for the fraction and for the rounded double.                       *)
(***************************************************************************)
EXTENDS Integers, Sequences, FiniteSets, TLC

VARIABLES
    overflow_checks,    \* build: TRUE = arithmetic overflow panics, FALSE = wraps
    pc,                 \* position of the running function
    self,               \* to_cosmos_container: &self (docker::container::Container)
    stats,              \* first sample  (container.rs:19)
    delayed_stats,      \* second sample (container.rs:29)
    ret,                \* to_cosmos_container: what the call produced
    live,               \* the runtime's live container set
    containers,         \* the listing (container.rs:7) / the decoded listing (main.rs:71)
    idx,                \* get_containers_as_str: position of containers.iter()
    cosmos_containers,  \* get_containers_as_str: Vec<Container> (container.rs:17)
    result,             \* get_containers_as_str: the io::Result returned
    calls,              \* fallible operations issued in the current cycle, in order
    host,               \* main: env::var("HOST")
    stream,             \* run: what the runtime's socket still holds for this request
    response,           \* run: the response read so far (main.rs:54)
    encoded,            \* run: json::encode(&decoded)
    delivered,          \* bodies the collector accepted, in order
    clock,              \* seconds slept by main's loop
    cycle               \* number of run() calls started

vars == << overflow_checks, pc, self, stats, delayed_stats, ret, live, containers,
           idx, cosmos_containers, result, calls, host, stream, response,
           encoded, delivered, clock, cycle >>

----------------------------------------------------------------------------
(* Bounds *)

WordBits == 16
MaxCores == 4
MaxChunks == 2
MaxCycles == 2

----------------------------------------------------------------------------
(* u64 *)

U64_MOD == 2 ^ WordBits

\* a - b on u64 without overflow checks
wrapping_sub(a, b) == (a - b + U64_MOD) % U64_MOD

\* a panic carries its message and the source line that raised it
Panic(msg, line) == [ok |-> FALSE, panic |-> [msg |-> msg, line |-> line]]
Ok(v) == [ok |-> TRUE, val |-> v]

OVERFLOW == "attempted to subtract with overflow"
OUT_OF_BOUNDS == "index out of bounds"

\* a - b on u64: panics on overflow when the build checks, wraps otherwise
u64_sub(a, b, checks, line) ==
    IF a < b /\ checks THEN Panic(OVERFLOW, line) ELSE Ok(wrapping_sub(a, b))

----------------------------------------------------------------------------
(* f64 *)

RECURSIVE GCD(_, _)
GCD(a, b) == IF b = 0 THEN a ELSE GCD(b, a % b)

NaN == [kind |-> "nan", num |-> 0, den |-> 1]
Inf == [kind |-> "inf", num |-> 0, den |-> 1]
Fin(n, d) == LET g == GCD(n, d)
             IN [kind |-> "fin", num |-> n \div g, den |-> d \div g]

\* (x as f64) for an unsigned integer
as_f64(n) == Fin(n, 1)

\* a / b for non-negative operands: x/0 is +Inf, 0/0 is NaN
f64_div(a, b) ==
    IF a.kind = "nan" \/ b.kind = "nan" THEN NaN
    ELSE IF a.kind = "inf" THEN (IF b.kind = "inf" THEN NaN ELSE Inf)
    ELSE IF b.kind = "inf" THEN Fin(0, 1)
    ELSE IF b.num = 0 THEN (IF a.num = 0 THEN NaN ELSE Inf)
    ELSE Fin(a.num * b.den, a.den * b.num)

\* a * b for non-negative operands: Inf * 0 is NaN
f64_mul(a, b) ==
    IF a.kind = "nan" \/ b.kind = "nan" THEN NaN
    ELSE IF a.kind = "inf" THEN (IF b.kind = "fin" /\ b.num = 0 THEN NaN ELSE Inf)
    ELSE IF b.kind = "inf" THEN (IF a.num = 0 THEN NaN ELSE Inf)
    ELSE Fin(a.num * b.num, a.den * b.den)

\* a <= 0.0: false for NaN and for +Inf
f64_le_zero(a) == a.kind = "fin" /\ a.num <= 0

IsZero(a) == a.kind = "fin" /\ a.num = 0
IsFinite(a) == a.kind = "fin"
\* a = n, a <= n for an integer n
EqInt(a, n) == a.kind = "fin" /\ a.num = n * a.den
LeInt(a, n) == a.kind = "fin" /\ a.num <= n * a.den

----------------------------------------------------------------------------
(* container.rs: get_cpu_percent *)

\* get_cpu_percent with the core-count factor left out (mutation test of C4)
get_cpu_percent_no_cpus(cpu_val, delayed_cpu_val, system_val, delayed_system_val, cpus, checks) ==
    LET cd == u64_sub(delayed_cpu_val, cpu_val, checks, 172)
        sd == u64_sub(delayed_system_val, system_val, checks, 173)
    IN  IF ~cd.ok THEN cd
        ELSE IF ~sd.ok THEN sd
        ELSE LET percent == f64_mul(f64_div(as_f64(cd.val), as_f64(sd.val)), as_f64(100))
             IN  Ok(IF f64_le_zero(percent) THEN Fin(0, 1) ELSE percent)

get_cpu_percent(cpu_val, delayed_cpu_val, system_val, delayed_system_val, cpus, checks) ==
    LET cd == u64_sub(delayed_cpu_val, cpu_val, checks, 172)
        sd == u64_sub(delayed_system_val, system_val, checks, 173)
    IN  IF ~cd.ok THEN cd
        ELSE IF ~sd.ok THEN sd
        ELSE LET cpu_val_delta == as_f64(cd.val)
                 system_val_delta == as_f64(sd.val)
                 percent == f64_mul(f64_mul(f64_div(cpu_val_delta, system_val_delta),
                                            as_f64(cpus)),
                                    as_f64(100))
             IN  Ok(IF f64_le_zero(percent) THEN Fin(0, 1) ELSE percent)

----------------------------------------------------------------------------
(* container.rs: to_cosmos_container *)

\* docker::stats::Stats, the fields the function reads
MkStats(rx, tx, limit, usage, total, percpu, system) ==
    [ network |-> [rx_bytes |-> rx, tx_bytes |-> tx],
      memory_stats |-> [limit |-> limit, usage |-> usage],
      cpu_stats |-> [ cpu_usage |-> [percpu_usage |-> percpu, total_usage |-> total],
                      system_cpu_usage |-> system ] ]

\* lines 82-87: the Network struct literal, fields evaluated in order
NetworkOf(s, d, checks) ==
    LET rxd == u64_sub(d.network.rx_bytes, s.network.rx_bytes, checks, 85)
        txd == u64_sub(d.network.tx_bytes, s.network.tx_bytes, checks, 86)
    IN  IF ~rxd.ok THEN rxd
        ELSE IF ~txd.ok THEN txd
        ELSE Ok([ RxBytes |-> d.network.rx_bytes,
                  TxBytes |-> d.network.tx_bytes,
                  RxBytesDelta |-> rxd.val,
                  TxBytesDelta |-> txd.val ])

\* lines 90-93
MemoryOf(d) == [Limit |-> d.memory_stats.limit, Usage |-> d.memory_stats.usage]

\* lines 110-117: one iteration of the per-core loop (i is 1-based here)
PerCpuStep(s, d, i, checks) ==
    IF i > Len(d.cpu_stats.cpu_usage.percpu_usage) THEN Panic(OUT_OF_BOUNDS, 111)
    ELSE get_cpu_percent(s.cpu_stats.cpu_usage.percpu_usage[i],
                         d.cpu_stats.cpu_usage.percpu_usage[i],
                         s.cpu_stats.system_cpu_usage,
                         d.cpu_stats.system_cpu_usage,
                         Len(s.cpu_stats.cpu_usage.percpu_usage),
                         checks)

\* lines 108-118: for i in 0..cpus, stopping at the first panic
PerCpuOf(s, d, checks) ==
    LET cpus == Len(s.cpu_stats.cpu_usage.percpu_usage)
        bad == {i \in 1..cpus : ~PerCpuStep(s, d, i, checks).ok}
    IN  IF bad # {}
        THEN PerCpuStep(s, d, CHOOSE i \in bad : \A j \in bad : i <= j, checks)
        ELSE Ok([i \in 1..cpus |-> PerCpuStep(s, d, i, checks).val])

\* lines 96-123
CpuOf(s, d, checks) ==
    LET cpus == Len(s.cpu_stats.cpu_usage.percpu_usage)
        total_percent == get_cpu_percent(s.cpu_stats.cpu_usage.total_usage,
                                         d.cpu_stats.cpu_usage.total_usage,
                                         s.cpu_stats.system_cpu_usage,
                                         d.cpu_stats.system_cpu_usage,
                                         cpus, checks)
        percpus == PerCpuOf(s, d, checks)
    IN  IF ~total_percent.ok THEN total_percent
        ELSE IF ~percpus.ok THEN percpus
        ELSE Ok([TotalUtilization |-> total_percent.val,
                 PerCpuUtilization |-> percpus.val])

\* lines 135-148: one name; a name is the sequence of its characters
NormalizeName(name) ==
    IF Len(name) = 0 THEN Panic(OUT_OF_BOUNDS, 135)     \* name.as_bytes()[0]
    ELSE IF name[1] = "/"
         THEN Ok([i \in 1..(Len(name) - 1) |-> name[i + 1]])
         ELSE Ok(name)

\* lines 133-149
NamesOf(raw) ==
    LET bad == {i \in 1..Len(raw) : ~NormalizeName(raw[i]).ok}
    IN  IF bad # {}
        THEN NormalizeName(raw[CHOOSE i \in bad : \A j \in bad : i <= j])
        ELSE Ok([i \in 1..Len(raw) |-> NormalizeName(raw[i]).val])

to_cosmos_container(c, s, d, checks) ==
    LET network == NetworkOf(s, d, checks)
        cpu == CpuOf(s, d, checks)
        names == NamesOf(c.Names)
    IN  IF ~network.ok THEN network
        ELSE IF ~cpu.ok THEN cpu
        ELSE IF ~names.ok THEN names
        ELSE Ok([ Id |-> c.Id,
                  Image |-> c.Image,
                  Status |-> c.Status,
                  Command |-> c.Command,
                  Created |-> c.Created,
                  Names |-> names.val,
                  Ports |-> c.Ports,
                  Stats |-> [ Network |-> network.val,
                              Cpu |-> cpu.val,
                              Memory |-> MemoryOf(d) ] ])

----------------------------------------------------------------------------
(* Inputs *)

ContainerIds == {"A", "B", "C"}

WEB_1 == <<"w", "e", "b", "-", "1">>
SLASH_WEB_1 == <<"/">> \o WEB_1
SLASH_SLASH_DB == <<"/", "/", "d", "b">>
EMPTY_NAME == << >>

\* docker::container::Container, the fields to_cosmos_container clones
Descriptor(id, names) ==
    [ Id |-> id, Image |-> <<"image", id>>, Status |-> "Up", Command |-> <<"run", id>>,
      Created |-> 1, Names |-> names, Ports |-> << >> ]

NamesInputs ==
    { << >>, <<SLASH_WEB_1>>, <<WEB_1, SLASH_SLASH_DB>>, <<EMPTY_NAME>>,
      <<SLASH_WEB_1, EMPTY_NAME, WEB_1>> }

CpuTotals == {0, 1000, 1500}
SystemTotals == {50000, 50500}
IoSamples == { [rx |-> 200, tx |-> 180, limit |-> 64, usage |-> 32],
               [rx |-> 180, tx |-> 200, limit |-> 64, usage |-> 48],
               [rx |-> 220, tx |-> 220, limit |-> 64, usage |-> 56] }

\* a snapshot with n cores, each core holding a quarter of the total
Snapshot(io, total, n, system) ==
    MkStats(io.rx, io.tx, io.limit, io.usage, total, [i \in 1..n |-> total \div 4], system)

StatsInputs ==
    { Snapshot(io, t, n, sy) : io \in IoSamples, t \in CpuTotals,
                               n \in 0..MaxCores, sy \in SystemTotals }

NotCalled == Panic("not called", 0)
NoStream == [full |-> 0, body |-> << >>]
NoResponse == [len |-> 0, body |-> << >>]
ZeroStats == MkStats(0, 0, 0, 0, 0, << >>, 0)

----------------------------------------------------------------------------
(* SpecConvert: one call of to_cosmos_container *)

NotRunning ==
    /\ live = {} /\ containers = << >> /\ idx = 0 /\ cosmos_containers = << >>
    /\ result = NotCalled /\ calls = << >> /\ host = Panic("unset", 0)
    /\ stream = NoStream /\ response = NoResponse /\ encoded = << >> /\ delivered = << >>
    /\ clock = 0 /\ cycle = 0

InitConvert ==
    /\ overflow_checks \in BOOLEAN
    /\ pc = "call"
    /\ self \in {Descriptor("A", n) : n \in NamesInputs}
    /\ stats \in StatsInputs
    /\ delayed_stats \in StatsInputs
    /\ ret = NotCalled
    /\ NotRunning

Convert ==
    /\ pc = "call"
    /\ ret' = to_cosmos_container(self, stats, delayed_stats, overflow_checks)
    /\ pc' = "returned"
    /\ UNCHANGED << overflow_checks, self, stats, delayed_stats, live, containers, idx,
                    cosmos_containers, result, calls, host, stream, response,
                    encoded, delivered, clock, cycle >>

NextConvert == Convert

SpecConvert == InitConvert /\ [][NextConvert]_vars

----------------------------------------------------------------------------
(* Claims about to_cosmos_container and get_cpu_percent (SpecConvert) *)

Returned == pc = "returned"
PanickedAt(lines) == ~ret.ok /\ ret.panic.line \in lines

Max(a, b) == IF a >= b THEN a ELSE b
Min(a, b) == IF a <= b THEN a ELSE b

base_total == stats.cpu_stats.cpu_usage.total_usage
adv_total == delayed_stats.cpu_stats.cpu_usage.total_usage
base_system == stats.cpu_stats.system_cpu_usage
adv_system == delayed_stats.cpu_stats.system_cpu_usage
base_percpu == stats.cpu_stats.cpu_usage.percpu_usage
adv_percpu == delayed_stats.cpu_stats.cpu_usage.percpu_usage
core_count == Len(base_percpu)
CommonCores == 1..Min(Len(base_percpu), Len(adv_percpu))

TotalUtilization == ret.val.Stats.Cpu.TotalUtilization
PerCpuUtilization == ret.val.Stats.Cpu.PerCpuUtilization

\* C1 (as claimed): whenever the host-wide counter did not move between the two
\* samples (system_delta = 0), every percent the conversion reports, aggregate and
\* per core, is exactly 0 (so neither NaN nor infinite).
C1_ZeroSystemDeltaIsZeroPercent ==
    (Returned /\ ret.ok /\ adv_system = base_system) =>
        /\ IsZero(TotalUtilization)
        /\ \A i \in 1..Len(PerCpuUtilization) : IsZero(PerCpuUtilization[i])

\* C2 (as claimed): when the aggregate counter, a per-core counter or the host-wide
\* counter regresses, the subtraction in get_cpu_percent neither aborts nor wraps:
\* the percent computed from the regressed counter is 0.
C2_RegressionClampedToZero ==
    Returned =>
        /\ (adv_total < base_total \/ adv_system < base_system
                \/ \E i \in CommonCores : adv_percpu[i] < base_percpu[i])
             => ~PanickedAt({172, 173})
        /\ ret.ok =>
             /\ (adv_total < base_total \/ adv_system < base_system)
                    => IsZero(TotalUtilization)
             /\ \A i \in CommonCores \cap 1..Len(PerCpuUtilization) :
                    (adv_percpu[i] < base_percpu[i] \/ adv_system < base_system)
                        => IsZero(PerCpuUtilization[i])

\* C3 (as claimed): the reported rx/tx deltas are max(advanced - baseline, 0), never
\* wrapped and never an abort, and the absolute rx/tx are the advanced sample's.
C3_NetworkDeltaClamped ==
    Returned =>
        /\ ~PanickedAt({85, 86})
        /\ ret.ok =>
             LET n == ret.val.Stats.Network
             IN  /\ n.RxBytesDelta = Max(delayed_stats.network.rx_bytes - stats.network.rx_bytes, 0)
                 /\ n.TxBytesDelta = Max(delayed_stats.network.tx_bytes - stats.network.tx_bytes, 0)
                 /\ n.RxBytes = delayed_stats.network.rx_bytes
                 /\ n.TxBytes = delayed_stats.network.tx_bytes

IsExample ==
    /\ base_total = 1000 /\ base_system = 50000
    /\ adv_total = 1500 /\ adv_system = 50500
    /\ core_count = 4

\* C4 (as claimed): with advanced.system_total > baseline.system_total and
\* advanced.cpu_total >= baseline.cpu_total, and nothing assumed about how the two
\* deltas compare, the aggregate percent lies in [0, 100 * core_count]; the example
\* gives exactly 400.
C4_PercentInRange ==
    (Returned /\ ret.ok /\ adv_system > base_system /\ adv_total >= base_total) =>
        /\ IsFinite(TotalUtilization)
        /\ TotalUtilization.num >= 0
        /\ LeInt(TotalUtilization, 100 * core_count)
        /\ IsExample => EqInt(TotalUtilization, 400)

\* C4 (amended): the same, for the pairs whose CPU delta does not exceed the
\* host-wide delta.
C4_PercentInRangeWhenCpuDeltaWithinSystemDelta ==
    (/\ Returned /\ ret.ok
     /\ adv_system > base_system /\ adv_total >= base_total
     /\ adv_total - base_total <= adv_system - base_system) =>
        /\ IsFinite(TotalUtilization)
        /\ TotalUtilization.num >= 0
        /\ LeInt(TotalUtilization, 100 * core_count)
        /\ IsExample => EqInt(TotalUtilization, 400)

C4_Witness ==
    /\ Returned /\ ret.ok /\ IsExample
    /\ EqInt(TotalUtilization, 400)

\* what the name normalizer is specified to produce for one name
StripOneSlash(name) ==
    IF Len(name) > 0 /\ name[1] = "/" THEN SubSeq(name, 2, Len(name)) ELSE name

\* C9 (as claimed): normalization never fails, whatever the raw names are (the empty
\* name included); the output has one name per raw name, in order, each with exactly
\* one leading "/" removed if it had one and unchanged otherwise.
C9_NamesNormalized ==
    Returned =>
        /\ ~PanickedAt({135})
        /\ ret.ok =>
             /\ Len(ret.val.Names) = Len(self.Names)
             /\ \A i \in 1..Len(self.Names) :
                    ret.val.Names[i] = StripOneSlash(self.Names[i])

\* C10 (as claimed): when the two samples report different core counts, the per-core
\* loop never indexes past the end of either sequence and yields one percent per
\* common index instead of aborting.
C10_PerCoreMismatchTruncates ==
    (Returned /\ Len(adv_percpu) # Len(base_percpu)) =>
        /\ ~PanickedAt({111})
        /\ ret.ok => Len(PerCpuUtilization) = Min(Len(base_percpu), Len(adv_percpu))

----------------------------------------------------------------------------
(* The container runtime (the docker client library and the daemon behind it) *)

SLASH_DB == <<"/", "d", "b">>

NamesOfId(id) ==
    CASE id = "A" -> <<SLASH_WEB_1>>
      [] id = "B" -> <<SLASH_DB, SLASH_WEB_1 \o SLASH_DB>>
      [] OTHER -> <<WEB_1>>

DescriptorOf(id) == Descriptor(id, NamesOfId(id))

\* the orders in which the runtime may list the set S
Listings(S) ==
    {q \in [1..Cardinality(S) -> S] : \A i, j \in 1..Cardinality(S) : q[i] = q[j] => i = j}

\* the snapshots a get_stats call may return
S_LOW == Snapshot([rx |-> 200, tx |-> 180, limit |-> 64, usage |-> 32], 1000, MaxCores, 50000)
S_HIGH == Snapshot([rx |-> 220, tx |-> 220, limit |-> 64, usage |-> 56], 1500, MaxCores, 50500)
S_RESET == Snapshot([rx |-> 180, tx |-> 200, limit |-> 64, usage |-> 48], 0, MaxCores - 1, 50500)
CycleSamples == {S_LOW, S_HIGH, S_RESET}

\* containers start and stop while a cycle samples them, or while main sleeps
RuntimeChange ==
    /\ pc \in {"gc_stats", "gc_delayed", "main_sleep"}
    /\ \E c \in ContainerIds :
          live' = IF c \in live THEN live \ {c} ELSE live \cup {c}
    /\ UNCHANGED << overflow_checks, pc, self, stats, delayed_stats, ret, containers, idx,
                    cosmos_containers, result, calls, host, stream, response,
                    encoded, delivered, clock, cycle >>

----------------------------------------------------------------------------
(* rustc_serialize::json::encode, as container.rs:42 uses it *)

\* an f64 that is NaN or infinite is written as null
JsonF64(x) == IF x.kind = "fin" THEN x ELSE [kind |-> "null", num |-> 0, den |-> 1]

JsonContainer(c) ==
    [c EXCEPT !.Stats.Cpu =
        [ TotalUtilization |-> JsonF64(c.Stats.Cpu.TotalUtilization),
          PerCpuUtilization |->
              [i \in 1..Len(c.Stats.Cpu.PerCpuUtilization) |->
                  JsonF64(c.Stats.Cpu.PerCpuUtilization[i])] ]]

\* a JSON array, elements in the order of the Vec
JsonEncode(v) == [i \in 1..Len(v) |-> JsonContainer(v[i])]

----------------------------------------------------------------------------
(* container.rs: get_containers_as_str *)

Err(kind, msg) == [ok |-> FALSE, err |-> [kind |-> kind, msg |-> msg]]

Call(op, id, ok, val) == [op |-> op, id |-> id, ok |-> ok, val |-> val]

gcUnused == << overflow_checks, self, host, stream, response, encoded, delivered, clock,
               cycle, live >>

InitGetContainers ==
    /\ overflow_checks \in BOOLEAN
    /\ pc = "gc_start"
    /\ live \in SUBSET ContainerIds
    /\ self = Descriptor("A", << >>)
    /\ stats = ZeroStats /\ delayed_stats = ZeroStats
    /\ ret = NotCalled
    /\ containers = << >> /\ idx = 0 /\ cosmos_containers = << >>
    /\ result = NotCalled /\ calls = << >> /\ host = Panic("unset", 0)
    /\ stream = NoStream /\ response = NoResponse /\ encoded = << >> /\ delivered = << >>
    /\ clock = 0 /\ cycle = 0

\* the head of `for container in containers.iter()` once position i is reached
LoopHead(cs, i) == IF i <= Len(cs) THEN "gc_stats" ELSE "gc_encode"

\* an Err branch that falls back into the same call (mutation test of C6)
ReturnErrRetry(op, id, kind, msg) ==
    /\ calls' = Append(calls, Call(op, id, FALSE, << >>))
    /\ UNCHANGED << pc, result, stats, delayed_stats, ret, containers, idx, cosmos_containers >>
    /\ UNCHANGED gcUnused

\* lines 9-14, 21-26, 31-36, 44-49: print, build the io::Error, return Err(err)
ReturnErr(op, id, kind, msg) ==
    /\ calls' = Append(calls, Call(op, id, FALSE, << >>))
    /\ result' = Err(kind, msg)
    /\ pc' = "gc_returned"
    /\ UNCHANGED << stats, delayed_stats, ret, containers, idx, cosmos_containers >>
    /\ UNCHANGED gcUnused

\* lines 6-15: docker.get_containers(true)
GetContainersOk ==
    /\ pc = "gc_start"
    /\ \E q \in Listings(live) :
          /\ containers' = [i \in 1..Len(q) |-> DescriptorOf(q[i])]
          /\ calls' = Append(calls, Call("get_containers", "", TRUE, containers'))
          /\ idx' = 1
          /\ pc' = LoopHead(containers', 1)
    /\ UNCHANGED << stats, delayed_stats, ret, cosmos_containers, result >>
    /\ UNCHANGED gcUnused

GetContainersErr ==
    /\ pc = "gc_start"
    /\ ReturnErr("get_containers", "", "ConnectionAborted", "A connection to Docker is aborted.")

\* lines 19-27: let stats = docker.get_stats(&container)
GetStatsOk ==
    /\ pc = "gc_stats"
    /\ \E s \in CycleSamples :
          /\ stats' = s
          /\ calls' = Append(calls, Call("get_stats", containers[idx].Id, TRUE, s))
    /\ pc' = "gc_delayed"
    /\ UNCHANGED << delayed_stats, ret, containers, idx, cosmos_containers, result >>
    /\ UNCHANGED gcUnused

GetStatsErr ==
    /\ pc = "gc_stats"
    /\ ReturnErr("get_stats", containers[idx].Id, "ConnectionAborted",
                 "A connection to Docker is aborted.")

\* lines 29-37: let delayed_stats = docker.get_stats(&container)
GetDelayedStatsOk ==
    /\ pc = "gc_delayed"
    /\ \E s \in CycleSamples :
          /\ delayed_stats' = s
          /\ calls' = Append(calls, Call("get_stats", containers[idx].Id, TRUE, s))
    /\ pc' = "gc_convert"
    /\ UNCHANGED << stats, ret, containers, idx, cosmos_containers, result >>
    /\ UNCHANGED gcUnused

GetDelayedStatsErr ==
    /\ pc = "gc_delayed"
    /\ ReturnErr("get_stats", containers[idx].Id, "ConnectionAborted",
                 "A connection to Docker is aborted.")

\* the two samples passed in the wrong order (mutation test of C7)
ConvertSwapped(c) == to_cosmos_container(c, delayed_stats, stats, overflow_checks)

\* line 39: the call container.to_cosmos_container(&stats, &delayed_stats)
ConvertCurrent(c) == to_cosmos_container(c, stats, delayed_stats, overflow_checks)

\* a push at the front (mutation test of C5)
PushFront(v, x) == <<x>> \o v

\* line 39: cosmos_containers.push(..)
Push(v, x) == Append(v, x)

\* line 39, then the loop's next iteration; a panic inside the conversion unwinds
\* out of get_containers_as_str
ConvertAndPush ==
    /\ pc = "gc_convert"
    /\ LET r == ConvertCurrent(containers[idx])
       IN  IF r.ok
           THEN /\ cosmos_containers' = Push(cosmos_containers, r.val)
                /\ idx' = idx + 1
                /\ pc' = LoopHead(containers, idx + 1)
                /\ UNCHANGED ret
           ELSE /\ ret' = r
                /\ pc' = "panicked"
                /\ UNCHANGED << cosmos_containers, idx >>
    /\ UNCHANGED << stats, delayed_stats, containers, result, calls >>
    /\ UNCHANGED gcUnused

\* lines 42-52: json::encode(&cosmos_containers), return Ok(..)
EncodeOk ==
    /\ pc = "gc_encode"
    /\ calls' = Append(calls, Call("encode", "", TRUE, << >>))
    /\ result' = Ok(JsonEncode(cosmos_containers))
    /\ pc' = "gc_returned"
    /\ UNCHANGED << stats, delayed_stats, ret, containers, idx, cosmos_containers >>
    /\ UNCHANGED gcUnused

EncodeErr ==
    /\ pc = "gc_encode"
    /\ ReturnErr("encode", "", "InvalidInput", "Encoding is failed for containers.")

NextGetContainers ==
    \/ GetContainersOk \/ GetContainersErr
    \/ GetStatsOk \/ GetStatsErr
    \/ GetDelayedStatsOk \/ GetDelayedStatsErr
    \/ ConvertAndPush
    \/ EncodeOk \/ EncodeErr

----------------------------------------------------------------------------
(* main.rs: main and run *)

BUFFER_SIZE == 1024
SLEEP_SECONDS == 5

mainUnused == << overflow_checks, self, stats, delayed_stats, idx, cosmos_containers,
                 result, live >>

InitMain ==
    /\ overflow_checks \in BOOLEAN
    /\ pc = "main_env"
    /\ live \in SUBSET ContainerIds
    /\ self = Descriptor("A", << >>)
    /\ stats = ZeroStats /\ delayed_stats = ZeroStats
    /\ ret = NotCalled
    /\ containers = << >> /\ idx = 0 /\ cosmos_containers = << >>
    /\ result = NotCalled /\ calls = << >> /\ host = Panic("unset", 0)
    /\ stream = NoStream /\ response = NoResponse /\ encoded = << >> /\ delivered = << >>
    /\ clock = 0 /\ cycle = 0

\* a failure that is logged and skipped, the loop going on (mutation test of C8)
PanicSwallowed(op, msg, line) ==
    /\ calls' = Append(calls, Call(op, "", FALSE, << >>))
    /\ pc' = "main_sleep"
    /\ UNCHANGED << ret, host, stream, response, containers, encoded, delivered, clock, cycle >>
    /\ UNCHANGED mainUnused

\* panic!(..): the process ends
PanicIn(op, msg, line) ==
    /\ calls' = Append(calls, Call(op, "", FALSE, << >>))
    /\ ret' = Panic(msg, line)
    /\ pc' = "panicked"
    /\ UNCHANGED << host, stream, response, containers, encoded, delivered, clock, cycle >>
    /\ UNCHANGED mainUnused

\* lines 91-97: HOST is read once; the loop's first run(&host) follows at once
MainEnvOk ==
    /\ pc = "main_env"
    /\ host' = Ok("http://collector")
    /\ cycle' = 1
    /\ pc' = "run_connect"
    /\ UNCHANGED << ret, calls, stream, response, containers, encoded, delivered, clock >>
    /\ UNCHANGED mainUnused

MainEnvErr ==
    /\ pc = "main_env"
    /\ ret' = Panic("error envionment variable", 93)
    /\ pc' = "panicked"
    /\ UNCHANGED << host, calls, stream, response, containers, encoded, delivered,
                    clock, cycle >>
    /\ UNCHANGED mainUnused

\* lines 41-44: UnixStream::connect
RunConnectOk ==
    /\ pc = "run_connect"
    /\ calls' = Append(calls, Call("connect", "", TRUE, << >>))
    /\ pc' = "run_write"
    /\ UNCHANGED << ret, host, stream, response, containers, encoded, delivered, clock, cycle >>
    /\ UNCHANGED mainUnused

RunConnectErr ==
    /\ pc = "run_connect"
    /\ PanicIn("connect", "error stream connect", 43)

\* lines 45-54: the request is written; the runtime answers with its listing, which
\* arrives as some full buffers followed by a short one
RunWriteOk ==
    /\ pc = "run_write"
    /\ \E n \in 0..MaxChunks, q \in Listings(live) :
          stream' = [full |-> n, body |-> [i \in 1..Len(q) |-> DescriptorOf(q[i])]]
    /\ response' = NoResponse
    /\ calls' = Append(calls, Call("write", "", TRUE, << >>))
    /\ pc' = "run_read"
    /\ UNCHANGED << ret, host, containers, encoded, delivered, clock, cycle >>
    /\ UNCHANGED mainUnused

RunWriteErr ==
    /\ pc = "run_write"
    /\ PanicIn("write", "error stream write", 49)

\* lines 56-65: a read that fills the buffer; the loop goes on
RunReadFull ==
    /\ pc = "run_read"
    /\ stream.full > 0
    /\ stream' = [stream EXCEPT !.full = @ - 1]
    /\ response' = [response EXCEPT !.len = @ + BUFFER_SIZE]
    /\ calls' = Append(calls, Call("read", "", TRUE, << >>))
    /\ UNCHANGED << pc, ret, host, containers, encoded, delivered, clock, cycle >>
    /\ UNCHANGED mainUnused

\* lines 56-65: a read shorter than the buffer ends the loop
RunReadShort ==
    /\ pc = "run_read"
    /\ stream.full = 0
    /\ Len(stream.body) < BUFFER_SIZE
    /\ stream' = NoStream
    /\ response' = [len |-> response.len + Len(stream.body), body |-> stream.body]
    /\ calls' = Append(calls, Call("read", "", TRUE, << >>))
    /\ pc' = "run_decode"
    /\ UNCHANGED << ret, host, containers, encoded, delivered, clock, cycle >>
    /\ UNCHANGED mainUnused

\* lines 58 and 63: the read fails, or what was read is not UTF-8
RunReadErr ==
    /\ pc = "run_read"
    /\ \E line \in {58, 63} : PanicIn("read", "error stream read", line)

\* main.rs:30-38: the fields json::decode keeps of one listed container
MainContainer(d) ==
    [ Id |-> d.Id, Image |-> d.Image, Status |-> d.Status, Command |-> d.Command,
      Created |-> as_f64(d.Created) ]

\* lines 68-71: the body after the last blank line is decoded
RunDecodeOk ==
    /\ pc = "run_decode"
    /\ containers' = [i \in 1..Len(response.body) |-> MainContainer(response.body[i])]
    /\ calls' = Append(calls, Call("decode", "", TRUE, << >>))
    /\ pc' = "run_encode"
    /\ UNCHANGED << ret, host, stream, response, encoded, delivered, clock, cycle >>
    /\ UNCHANGED mainUnused

RunDecodeErr ==
    /\ pc = "run_decode"
    /\ PanicIn("decode", "called Result::unwrap() on an Err value", 71)

\* lines 72-74
RunEncodeOk ==
    /\ pc = "run_encode"
    /\ encoded' = [i \in 1..Len(containers) |->
                      [containers[i] EXCEPT !.Created = JsonF64(@)]]
    /\ calls' = Append(calls, Call("encode", "", TRUE, << >>))
    /\ pc' = "run_send"
    /\ UNCHANGED << ret, host, stream, response, containers, delivered, clock, cycle >>
    /\ UNCHANGED mainUnused

RunEncodeErr ==
    /\ pc = "run_encode"
    /\ PanicIn("encode", "called Result::unwrap() on an Err value", 72)

\* lines 76-85: the POST is accepted; run returns to main's loop, which sleeps
RunSendOk ==
    /\ pc = "run_send"
    /\ delivered' = Append(delivered, [cycle |-> cycle, host |-> host.val, body |-> encoded])
    /\ calls' = Append(calls, Call("send", "", TRUE, << >>))
    /\ pc' = "main_sleep"
    /\ UNCHANGED << ret, host, stream, response, containers, encoded, clock, cycle >>
    /\ UNCHANGED mainUnused

\* line 86
RunSendErr ==
    /\ pc = "run_send"
    /\ PanicIn("send", "error http send", 86)

\* lines 96-99: timer::sleep(Duration::seconds(5)), then the next run(&host)
Sleep ==
    /\ pc = "main_sleep"
    /\ cycle < MaxCycles
    /\ clock' = clock + SLEEP_SECONDS
    /\ cycle' = cycle + 1
    /\ calls' = << >>
    /\ stream' = NoStream /\ response' = NoResponse
    /\ containers' = << >> /\ encoded' = << >>
    /\ pc' = "run_connect"
    /\ UNCHANGED << ret, host, delivered >>
    /\ UNCHANGED mainUnused

NextMain ==
    \/ MainEnvOk \/ MainEnvErr
    \/ RunConnectOk \/ RunConnectErr
    \/ RunWriteOk \/ RunWriteErr
    \/ RunReadFull \/ RunReadShort \/ RunReadErr
    \/ RunDecodeOk \/ RunDecodeErr
    \/ RunEncodeOk \/ RunEncodeErr
    \/ RunSendOk \/ RunSendErr
    \/ Sleep

----------------------------------------------------------------------------
(* Spec: either entry point, against the changing runtime *)

Init == InitGetContainers \/ InitMain

Next == NextGetContainers \/ NextMain \/ RuntimeChange

Spec == Init /\ [][Next]_vars

----------------------------------------------------------------------------
(* Claims about a cycle (Spec) *)

Last(q) == q[Len(q)]

\* the calls are those of a get_containers_as_str cycle
GcCycle == calls # << >> /\ calls[1].op = "get_containers"

\* the listing made at the start of the cycle
Listed == IF GcCycle /\ calls[1].ok THEN calls[1].val ELSE << >>

\* C5: a report that is produced holds exactly one record per container of the
\* cycle's single listing, in listing order; record i carries the identifier and
\* descriptor fields of listed container i and the metrics computed from the two
\* samples taken of that same container, whatever the live set has become meanwhile.
C5_ReportMatchesListing ==
    result.ok =>
        /\ Len(result.val) = Len(Listed)
        /\ Cardinality({k \in 1..Len(calls) : calls[k].op = "get_containers"}) = 1
        /\ \A i \in 1..Len(Listed) :
              LET first == calls[2 * i]
                  second == calls[2 * i + 1]
                  own == to_cosmos_container(Listed[i], first.val, second.val, overflow_checks)
              IN  /\ first.id = Listed[i].Id /\ second.id = Listed[i].Id
                  /\ result.val[i].Id = Listed[i].Id
                  /\ own.ok /\ result.val[i] = JsonContainer(own.val)

C5_Witness ==
    /\ result.ok
    /\ Len(result.val) = 3
    /\ live # {Listed[i].Id : i \in 1..Len(Listed)}
    /\ calls[2].val # calls[4].val

\* C6: once any fallible step of a cycle has failed (the listing, a stats sample,
\* the encoding, or in run the connect/write/read/decode/encode/send), that call is
\* the last one of the cycle (no retry, no further query), the cycle has ended, and
\* no report was produced or delivered for it.
C6_FailFast ==
    \A k \in 1..Len(calls) :
        ~calls[k].ok =>
            /\ k = Len(calls)
            /\ pc \in {"gc_returned", "panicked"}
            /\ ~result.ok
            /\ \A j \in 1..Len(delivered) : delivered[j].cycle # cycle

C6_Witness ==
    /\ GcCycle
    /\ Len(cosmos_containers) >= 1
    /\ Last(calls).op = "get_stats" /\ ~Last(calls).ok
    /\ pc = "gc_returned" /\ ~result.ok

\* C7: the runtime calls of a get_containers_as_str cycle are the listing, then for
\* listed container 1, 2, .. in order its two stats samples back to back, then the
\* encoding; the first sample of a pair is the baseline and the second the advanced
\* one of that container's record.
C7_SamplingProtocol ==
    GcCycle =>
        /\ \A k \in 2..Len(calls) :
              \/ /\ calls[k].op = "get_stats"
                 /\ k \div 2 <= Len(Listed)
                 /\ calls[k].id = Listed[k \div 2].Id
              \/ /\ calls[k].op = "encode"
                 /\ k = Len(calls)
                 /\ k = 2 * Len(Listed) + 2
        /\ pc = "gc_convert" =>
              /\ Len(calls) = 2 * idx + 1
              /\ stats = calls[2 * idx].val /\ delayed_stats = calls[2 * idx + 1].val
        /\ \A i \in 1..Len(cosmos_containers) :
              LET baseline == calls[2 * i].val
                  advanced == calls[2 * i + 1].val
                  n == cosmos_containers[i].Stats.Network
              IN  /\ n.RxBytes = advanced.network.rx_bytes
                  /\ n.TxBytes = advanced.network.tx_bytes
                  /\ n.RxBytesDelta = wrapping_sub(advanced.network.rx_bytes,
                                                   baseline.network.rx_bytes)
                  /\ cosmos_containers[i].Stats.Memory = MemoryOf(advanced)

C7_Witness ==
    /\ GcCycle /\ pc = "gc_returned" /\ result.ok
    /\ Len(calls) = 8
    /\ calls[2].val # calls[3].val

RunPcs == {"run_connect", "run_write", "run_read", "run_decode", "run_encode", "run_send"}

\* C8 (as claimed): after a delivery, completed or failed, the loop is back in Idle
\* or in a further cycle; it never terminates.
C8_NoTerminalStateAfterDelivery ==
    (calls # << >> /\ Last(calls).op = "send") => pc # "panicked"

\* C8 (amended): the loop leaves Reporting for Idle only by a completed delivery,
\* leaves Idle only for a new cycle, 5 seconds later, and a cycle in which a step
\* (delivery included) fails ends the process: the terminated state is never left.
C8_LoopTransitions ==
    [][ /\ (pc' = "main_sleep" /\ pc # "main_sleep") =>
              /\ pc = "run_send"
              /\ Len(delivered') = Len(delivered) + 1
              /\ Last(delivered').cycle = cycle
        /\ (pc = "main_sleep" /\ pc' # "main_sleep") =>
              /\ pc' = "run_connect"
              /\ clock' = clock + SLEEP_SECONDS
              /\ cycle' = cycle + 1
        /\ (pc \in RunPcs /\ calls' # calls /\ ~Last(calls').ok) =>
              /\ pc' = "panicked"
              /\ delivered' = delivered
        /\ pc = "panicked" => pc' = "panicked" ]_vars

C8_Witness ==
    /\ pc = "panicked"
    /\ cycle = 2 /\ clock = SLEEP_SECONDS
    /\ Len(delivered) = 1
    /\ Last(calls).op = "send" /\ ~Last(calls).ok

====
